---- MODULE Spec2Model ----
(***************************************************************************)
(* A model of the tmx package (talvor/tmx): the map loader (tmx.go), the   *)
(* map document model, the layer payload decoders, the GID resolver and    *)
(* the geometry decoder (map-manager.go, second part), and the map         *)
(* registry MapManager (map-manager.go, first part).                       *)
(*                                                                         *)
(* Representation.                                                         *)
(*  - A GID is a uint32.  It is kept as [flip, idx]: flip is the value of  *)
(*    bits 31..29 (0..7) and idx the value of bits 28..0, so that          *)
(*    value = flip * 2^29 + idx.  Comparison and subtraction are those of  *)
(*    uint32 (subtraction wraps modulo 2^32).                              *)
(*  - A Go string / []byte is a sequence of one-character strings (text)   *)
(*    or of numbers 0..255 (bytes).  Error values and class names, which   *)
(*    are only compared, are TLA+ strings.                                 *)
(*  - A file path is the sequence of its elements; "." is <<>>.            *)
(*  - A pointer that may be nil is a sequence of length 0 (nil) or 1.      *)
(***************************************************************************)
EXTENDS Integers, Sequences, FiniteSets, TLC

VARIABLES
    source,    \* loader: the file name handed to LoadFile
    content,   \* loader: what the file holds (a document, or an unreadable one)
    out,       \* loader: what LoadFile returned
    perm,      \* loader: the order sort.Slice gave the tilesets (history)
    gidIn,     \* resolver: the last GID handed to DecodeTileGID
    gidOut,    \* resolver: what DecodeTileGID returned for it
    ptsIn,     \* geometry: the points string of a Polygon / PolyLine
    ptsOut,    \* geometry: what Decode returned for it
    mm,        \* registry: the MapManager (Maps, IsLoaded)
    loads,     \* registry: number of LoadMaps calls so far
    completed, \* registry: number of LoadMaps calls that ran to their end (history)
    hist,      \* registry: class of every map LoadMaps stored, in order (history)
    loadIn,    \* registry: the directory listing of the last LoadMaps call
    loadOut,   \* registry: how the last LoadMaps call ended
    qName,     \* registry: the last name handed to GetMapByName
    qOut       \* registry: what GetMapByName returned for it

loaderVars == <<source, content, out, perm, gidIn, gidOut>>
pointVars == <<ptsIn, ptsOut>>
registryVars == <<mm, loads, completed, hist, loadIn, loadOut, qName, qOut>>
vars == <<loaderVars, pointVars, registryVars>>

(***************************************************************************)
(* Bounds of the model.                                                    *)
(***************************************************************************)
MaxTilesets == 3
MaxLayers == 2
MaxPairs == 3
MaxFiles == 2
MaxLoads == 2
MaxDigits == 9

(***************************************************************************)
(* Generic helpers.                                                        *)
(***************************************************************************)
SeqsUpTo(S, n) == UNION {[1..k -> S] : k \in 0..n}

Perms(n) == {p \in [1..n -> 1..n] : \A i, j \in 1..n : i # j => p[i] # p[j]}

Permute(s, p) == [i \in 1..Len(s) |-> s[p[i]]]

Digits == <<"0", "1", "2", "3", "4", "5", "6", "7", "8", "9">>

IsDigit(c) == \E i \in 1..Len(Digits) : Digits[i] = c

DigitVal(c) == (CHOOSE i \in 1..Len(Digits) : Digits[i] = c) - 1

RECURSIVE DigitsVal(_)
DigitsVal(s) ==
    IF s = <<>> THEN 0
    ELSE 10 * DigitsVal(SubSeq(s, 1, Len(s) - 1)) + DigitVal(s[Len(s)])

\* strings.Split(s, sep) for a one-character separator: always at least one token.
RECURSIVE Split(_, _)
Split(s, sep) ==
    IF \A i \in 1..Len(s) : s[i] # sep THEN <<s>>
    ELSE LET k == CHOOSE i \in 1..Len(s) :
                      s[i] = sep /\ \A j \in 1..(i - 1) : s[j] # sep
         IN <<SubSeq(s, 1, k - 1)>> \o Split(SubSeq(s, k + 1, Len(s)), sep)

(***************************************************************************)
(* GID: uint32 arithmetic on [flip, idx].                                  *)
(***************************************************************************)
IdxRange == 536870912

GID(flip, idx) == [flip |-> flip, idx |-> idx]

\* GID(n) for a number n < 2^31
ToGID(n) == GID(n \div IdxRange, n % IdxRange)

GIDHorizontalFlip == GID(4, 0)
GIDVerticalFlip == GID(2, 0)
GIDDiagonalFlip == GID(1, 0)
GIDMask == GID(0, 268435455)

\* a >= b on uint32
GIDGeq(a, b) == a.flip > b.flip \/ (a.flip = b.flip /\ a.idx >= b.idx)

\* a - b on uint32 (wraps)
GIDSub(a, b) ==
    LET borrow == IF a.idx < b.idx THEN 1 ELSE 0
    IN GID((a.flip - b.flip - borrow) % 8, (a.idx - b.idx) % IdxRange)

\* a | b for a flip constant b and a without that bit
GIDOr(a, b) == GID(a.flip + b.flip, a.idx + b.idx)

\* a & GIDMask
GIDAndMask(a) == GID(0, a.idx % (GIDMask.idx + 1))

(***************************************************************************)
(* Paths: filepath.Dir and path.Join (with path.Clean) on element lists.   *)
(***************************************************************************)
\* path.Clean of a relative path: "." elements go, "x/.." goes, leading ".." stay
RECURSIVE Clean(_, _)
Clean(done, rest) ==
    IF rest = <<>> THEN done
    ELSE IF Head(rest) = "." THEN Clean(done, Tail(rest))
    ELSE IF Head(rest) = ".." /\ done # <<>> /\ done[Len(done)] # ".."
         THEN Clean(SubSeq(done, 1, Len(done) - 1), Tail(rest))
    ELSE Clean(Append(done, Head(rest)), Tail(rest))

\* path.Join(a, b): empty elements are ignored, the result is cleaned
PathJoin(a, b) == Clean(<<>>, a \o b)

\* filepath.Dir(p): all but the last element, cleaned ("." when nothing is left)
PathDir(p) == IF p = <<>> THEN <<>> ELSE Clean(<<>>, SubSeq(p, 1, Len(p) - 1))

(***************************************************************************)
(* Map.DecodeTileGID: the first tileset, in list order, with               *)
(* gid >= FirstGID.  ts is the index of the tileset in m.Tilesets, 0 for   *)
(* nil.                                                                    *)
(***************************************************************************)
NilTileset == 0

DecodeTileGID(tilesets, gid) ==
    LET hits == {i \in 1..Len(tilesets) : GIDGeq(gid, tilesets[i].FirstGID)}
    IN IF hits = {} THEN [ts |-> NilTileset, id |-> GID(0, 0)]
       ELSE LET i == CHOOSE k \in hits : \A j \in hits : k <= j
            IN [ts |-> i, id |-> GIDSub(gid, tilesets[i].FirstGID)]

(***************************************************************************)
(* Layer payload decoders.  A decoder returns [err, ...]; err = Nil is     *)
(* Go's nil error.                                                         *)
(***************************************************************************)
Nil == "nil"
ErrUnknownEncoding == "tmx: invalid encoding scheme"
ErrUnknownCompression == "tmx: invalid compression method"
ErrInvalidDecodedDataLen == "tmx: invalid decoded data length"
ErrInvalidPointsField == "tmx: invalid points string"
\* errors of the libraries the decoders call
ErrSyntax == "strconv: invalid syntax"
ErrRange == "strconv: value out of range"
ErrCorruptInput == "base64: illegal base64 data"
ErrGzipHeader == "gzip: invalid header"
ErrZlibHeader == "zlib: invalid header"
ErrUnexpectedEOF == "unexpected EOF"

Whitespace == {" ", "\n", "\t", "\r"}

\* bytes.TrimSpace
RECURSIVE TrimSpace(_)
TrimSpace(s) ==
    IF s = <<>> THEN s
    ELSE IF Head(s) \in Whitespace THEN TrimSpace(Tail(s))
    ELSE IF s[Len(s)] \in Whitespace THEN TrimSpace(SubSeq(s, 1, Len(s) - 1))
    ELSE s

B64Alphabet ==
    <<"A", "B", "C", "D", "E", "F", "G", "H", "I", "J", "K", "L", "M", "N",
    "O", "P", "Q", "R", "S", "T", "U", "V", "W", "X", "Y", "Z", "a", "b",
    "c", "d", "e", "f", "g", "h", "i", "j", "k", "l", "m", "n", "o", "p",
    "q", "r", "s", "t", "u", "v", "w", "x", "y", "z", "0", "1", "2", "3",
    "4", "5", "6", "7", "8", "9", "+", "/">>

IsB64(c) == \E i \in 1..Len(B64Alphabet) : B64Alphabet[i] = c

B64Val(c) == (CHOOSE i \in 1..Len(B64Alphabet) : B64Alphabet[i] = c) - 1

\* one quantum of four characters; last: it is the final quantum of the input
B64Quantum(q, last) ==
    IF IsB64(q[1]) /\ IsB64(q[2]) /\ IsB64(q[3]) /\ IsB64(q[4])
    THEN LET n == B64Val(q[1]) * 262144 + B64Val(q[2]) * 4096
                  + B64Val(q[3]) * 64 + B64Val(q[4])
         IN [err |-> Nil, bytes |-> <<n \div 65536, (n \div 256) % 256, n % 256>>]
    ELSE IF last /\ IsB64(q[1]) /\ IsB64(q[2]) /\ IsB64(q[3]) /\ q[4] = "="
    THEN LET n == B64Val(q[1]) * 4096 + B64Val(q[2]) * 64 + B64Val(q[3])
         IN [err |-> Nil, bytes |-> <<n \div 1024, (n \div 4) % 256>>]
    ELSE IF last /\ IsB64(q[1]) /\ IsB64(q[2]) /\ q[3] = "=" /\ q[4] = "="
    THEN LET n == B64Val(q[1]) * 64 + B64Val(q[2])
         IN [err |-> Nil, bytes |-> <<n \div 16>>]
    ELSE [err |-> ErrCorruptInput, bytes |-> <<>>]

RECURSIVE B64Quanta(_)
B64Quanta(s) ==
    IF s = <<>> THEN [err |-> Nil, bytes |-> <<>>]
    ELSE IF Len(s) < 4 THEN [err |-> ErrCorruptInput, bytes |-> <<>>]
    ELSE LET q == B64Quantum(SubSeq(s, 1, 4), Len(s) = 4)
             r == B64Quanta(SubSeq(s, 5, Len(s)))
         IN IF q.err # Nil THEN q
            ELSE IF r.err # Nil THEN r
            ELSE [err |-> Nil, bytes |-> q.bytes \o r.bytes]

\* base64.NewDecoder(base64.StdEncoding, r) read to its end: line breaks are
\* skipped, padded quanta are accepted at the end only
B64Decode(s) == B64Quanta(SelectSeq(s, LAMBDA c : c \notin {"\n", "\r"}))

\* The gzip and zlib streams of the input set with what they inflate to
\* (compress/gzip and compress/zlib are libraries: a stream outside the table
\* with a good header is taken as cut short).
GzipOfOne ==
    <<31, 139, 8, 0, 0, 0, 0, 0, 0, 255, 1, 4, 0, 251, 255, 1, 0, 0, 0,
      121, 184, 248, 153, 4, 0, 0, 0>>

ZlibOfOne ==
    <<120, 1, 1, 4, 0, 251, 255, 1, 0, 0, 0, 0, 8, 0, 2>>

GzipReadAll(bytes) ==
    IF Len(bytes) < 2 \/ bytes[1] # 31 \/ bytes[2] # 139
    THEN [err |-> ErrGzipHeader, bytes |-> <<>>]
    ELSE IF bytes = GzipOfOne THEN [err |-> Nil, bytes |-> <<1, 0, 0, 0>>]
    ELSE [err |-> ErrUnexpectedEOF, bytes |-> <<>>]

ZlibReadAll(bytes) ==
    IF Len(bytes) < 2 \/ bytes[1] % 16 # 8 \/ (bytes[1] * 256 + bytes[2]) % 31 # 0
    THEN [err |-> ErrZlibHeader, bytes |-> <<>>]
    ELSE IF bytes = ZlibOfOne THEN [err |-> Nil, bytes |-> <<1, 0, 0, 0>>]
    ELSE [err |-> ErrUnexpectedEOF, bytes |-> <<>>]

\* the switch of Data.decodeBase64 and its io.ReadAll, encr being what the
\* base64 decoder yields when read
decompress(compression, encr) ==
    CASE compression = "gzip" ->
           IF encr.err # Nil THEN encr ELSE GzipReadAll(encr.bytes)
      [] compression = "zlib" ->
           IF encr.err # Nil THEN encr ELSE ZlibReadAll(encr.bytes)
      [] compression = "" -> encr
      [] OTHER -> [err |-> ErrUnknownCompression, bytes |-> <<>>]

\* Data.decodeBase64
decodeBase64(d) == decompress(d.Compression, B64Decode(TrimSpace(d.RawData)))

\* strconv.ParseUint(s, 10, 32), for tokens of at most MaxDigits digits
ParseUint(s) ==
    IF s = <<>> \/ \E i \in 1..Len(s) : ~IsDigit(s[i])
    THEN [err |-> ErrSyntax, val |-> GID(0, 0)]
    ELSE IF Len(s) > MaxDigits THEN [err |-> ErrRange, val |-> GID(7, IdxRange - 1)]
    ELSE [err |-> Nil, val |-> ToGID(DigitsVal(s))]

\* the loop of Data.decodeCSV over the parsed tokens: the first token that
\* fails ends it with its error
gidsOf(parsed) ==
    IF \E i \in 1..Len(parsed) : parsed[i].err # Nil
    THEN [err |-> parsed[CHOOSE i \in 1..Len(parsed) :
                             parsed[i].err # Nil
                             /\ \A j \in 1..(i - 1) : parsed[j].err = Nil].err,
          gids |-> <<>>]
    ELSE [err |-> Nil, gids |-> [i \in 1..Len(parsed) |-> parsed[i].val]]

parseAll(str) == [i \in 1..Len(str) |-> ParseUint(str[i])]

\* Data.decodeCSV
decodeCSV(d) ==
    gidsOf(parseAll(Split(SelectSeq(d.RawData, LAMBDA r : IsDigit(r) \/ r = ","), ",")))

\* Map.decodeLayerXML
decodeLayerXML(m, l) ==
    LET d == l.Data[1]
    IN IF Len(d.DataTiles) # m.Width * m.Height
       THEN [err |-> ErrInvalidDecodedDataLen, gids |-> <<>>]
       ELSE [err |-> Nil, gids |-> d.DataTiles]

\* Map.decodeLayerCSV after its call of decodeCSV, which returned r
checkCSV(m, r) ==
    IF r.err # Nil THEN [err |-> r.err, gids |-> <<>>]
    ELSE IF Len(r.gids) # m.Width * m.Height
    THEN [err |-> ErrInvalidDecodedDataLen, gids |-> <<>>]
    ELSE r

\* Map.decodeLayerCSV
decodeLayerCSV(m, l) == checkCSV(m, decodeCSV(l.Data[1]))

\* the little-endian uint32 at bytes j+1..j+4
LittleEndianGID(b, j) ==
    GID(b[j + 4] \div 32,
        b[j + 1] + b[j + 2] * 256 + b[j + 3] * 65536 + (b[j + 4] % 32) * 16777216)

\* Map.decodeLayerBase64 after its call of decodeBase64, which returned r
\* (the loops over y and x fill gids[y * Width + x] from bytes 4 * (y * Width + x) on)
checkBase64(m, r) ==
    IF r.err # Nil THEN [err |-> r.err, gids |-> <<>>]
    ELSE IF Len(r.bytes) # m.Width * m.Height * 4
    THEN [err |-> ErrInvalidDecodedDataLen, gids |-> <<>>]
    ELSE [err |-> Nil,
          gids |-> [k \in 1..(m.Width * m.Height) |->
                       LittleEndianGID(r.bytes, 4 * (k - 1))]]

\* Map.decodeLayerBase64
decodeLayerBase64(m, l) == checkBase64(m, decodeBase64(l.Data[1]))

\* Map.decodeLayer; dereferencing a nil l.Data panics
Panic == "panic: nil pointer dereference"

decodeLayer(m, l) ==
    IF l.Data = <<>> THEN [err |-> Panic, gids |-> <<>>]
    ELSE CASE l.Data[1].Encoding = "csv" -> decodeLayerCSV(m, l)
           [] l.Data[1].Encoding = "base64" -> decodeLayerBase64(m, l)
           [] l.Data[1].Encoding = "" -> decodeLayerXML(m, l)
           [] OTHER -> [err |-> ErrUnknownEncoding, gids |-> <<>>]

\* Map.decodeLayers from layer i on: the layers as the loop leaves them and the
\* error it returned (the first failing layer stops it)
RECURSIVE decodeLayersFrom(_, _, _)
\* the error of a layer swallowed: the loop goes on with the next layer
decodeLayersStepSkipping(m, layers, i, r) ==
    IF r.err # Nil THEN decodeLayersFrom(m, layers, i + 1)
    ELSE decodeLayersFrom(
             m,
             [layers EXCEPT ![i] = [@ EXCEPT !.Tiles = r.gids, !.Data = <<>>]],
             i + 1)

\* the body of the loop for layer i, decodeLayer having returned r
decodeLayersStep(m, layers, i, r) ==
    IF r.err # Nil THEN [err |-> r.err, Layers |-> layers]
    ELSE decodeLayersFrom(
             m,
             [layers EXCEPT ![i] = [@ EXCEPT !.Tiles = r.gids, !.Data = <<>>]],
             i + 1)

decodeLayersFrom(m, layers, i) ==
    IF i > Len(layers) THEN [err |-> Nil, Layers |-> layers]
    ELSE decodeLayersStep(m, layers, i, decodeLayer(m, layers[i]))

decodeLayers(m) == decodeLayersFrom(m, m.Layers, 1)

\* Map.decodeTilesets from tileset i on: the first empty Source ends the loop
RECURSIVE decodeTilesetsFrom(_, _, _)
decodeTilesetsFrom(baseDir, tilesets, i) ==
    IF i > Len(tilesets) THEN tilesets
    ELSE IF tilesets[i].Source = <<>> THEN tilesets
    ELSE decodeTilesetsFrom(
             baseDir,
             [tilesets EXCEPT ![i].Source = PathJoin(baseDir, tilesets[i].Source)],
             i + 1)

decodeTilesets(m) == decodeTilesetsFrom(m.baseDir, m.Tilesets, 1)

(***************************************************************************)
(* The loader: tmxReader and LoadFile.                                     *)
(*                                                                         *)
(* A file is [kind, doc]: kind "ioerr" (os.Open fails), "badxml"           *)
(* (xml.Decode fails) or "doc", with doc = <<d>> the fields xml.Decode     *)
(* fills in: [Class, Width, Height, Tilesets, Layers].  An absent          *)
(* attribute leaves Go's zero value (0, the empty string), an absent       *)
(* <data> element a nil Data.                                              *)
(* LoadFile returns [kind, err, m]: kind "map" with m = <<the map>>,       *)
(* "err" with the error, or "panic" when the call does not return.         *)
(***************************************************************************)
ErrOpen == "open: no such file or directory"
ErrXML == "xml: syntax error"

NoMap == <<>>

\* sort.Slice left out: the tilesets stay in document order
SortSliceOmitted(tilesets) == {[i \in 1..Len(tilesets) |-> i]}

\* sort.Slice(m.Tilesets, FirstGID descending): the orders it may leave the
\* tilesets in, each as the list of their document positions.  sort.Slice is
\* not stable: tilesets with equal FirstGID may end in either order.
SortSlice(tilesets) ==
    {p \in Perms(Len(tilesets)) :
        \A i \in 1..(Len(tilesets) - 1) :
            GIDGeq(tilesets[p[i]].FirstGID, tilesets[p[i + 1]].FirstGID)}

\* the orders sort.Slice may give for the file c (nothing to sort without a doc)
SortOutcomes(c) == IF c.doc = <<>> THEN {<<>>} ELSE SortSlice(c.doc[1].Tilesets)

\* tmxReader from its call of decodeLayers on, which returned r
tmxReaderEnd(m, r) ==
    IF r.err = Panic THEN [kind |-> "panic", err |-> Panic, m |-> NoMap]
    ELSE IF r.err # Nil THEN [kind |-> "err", err |-> r.err, m |-> NoMap]
    ELSE [kind |-> "map", err |-> Nil,
          m |-> <<[m EXCEPT !.Layers = r.Layers, !.Tilesets = decodeTilesets(m)]>>]

\* tmxReader after d.Decode(m) and sort.Slice
tmxReaderDecode(m) == tmxReaderEnd(m, decodeLayers(m))

\* tmxReader(src, r) on the file c, p being the order sort.Slice gave
tmxReader(src, c, p) ==
    IF c.kind = "badxml" THEN [kind |-> "err", err |-> ErrXML, m |-> NoMap]
    ELSE tmxReaderDecode(
             [baseDir |-> PathDir(src), Source |-> src, Class |-> c.doc[1].Class,
              Width |-> c.doc[1].Width, Height |-> c.doc[1].Height,
              Tilesets |-> Permute(c.doc[1].Tilesets, p), Layers |-> c.doc[1].Layers])

\* LoadFile(fileName)
LoadFile(src, c, p) ==
    IF c.kind = "ioerr" THEN [kind |-> "err", err |-> ErrOpen, m |-> NoMap]
    ELSE tmxReader(src, c, p)

(***************************************************************************)
(* Inputs of the loader.                                                   *)
(***************************************************************************)
MapFile == <<"assets", "maps", "town.tmx">>

FirstGIDs == {ToGID(0), ToGID(1), ToGID(50), ToGID(100)}

TilesetSources == {<<>>, <<"..", "tiles", "a.tsx">>}

TilesetChoices == {[FirstGID |-> g, Source |-> s] : g \in FirstGIDs, s \in TilesetSources}

QueryGIDs ==
    {ToGID(0), ToGID(1), ToGID(75), ToGID(150),
     GIDOr(ToGID(150), GIDHorizontalFlip), GIDOr(ToGID(1), GIDVerticalFlip),
     GIDOr(ToGID(75), GIDDiagonalFlip)}

Data(enc, comp, raw, tiles) ==
    <<[Encoding |-> enc, Compression |-> comp, RawData |-> raw, DataTiles |-> tiles]>>

DataChoices ==
    {<<>>,
     Data("", "", <<>>, <<ToGID(1)>>),
     Data("", "lz4", <<>>, <<ToGID(1), GIDOr(ToGID(2), GIDHorizontalFlip)>>),
     Data("csv", "", <<"1", ",", "\n", "2">>, <<>>),
     Data("csv", "lz4", <<"7">>, <<>>),
     Data("csv", "", <<"1", ",", ",", "2">>, <<>>),
     Data("base64", "", <<"\n", " ", " ", "A", "Q", "A", "A", "g", "A", "=", "=", "\n">>, <<>>),
     Data("base64", "", <<"A", "Q", "A", "A", "A", "A", "I", "A", "A", "A", "A", "=">>, <<>>),
     Data("base64", "", <<"A", "?", "A", "A">>, <<>>),
     Data("base64", "gzip",
        <<"H", "4", "s", "I", "A", "A", "A", "A", "A", "A", "A", "A", "/",
        "w", "E", "E", "A", "P", "v", "/", "A", "Q", "A", "A", "A", "H", "m",
        "4", "+", "J", "k", "E", "A", "A", "A", "A">>,
        <<>>),
     Data("base64", "zlib",
        <<"e", "A", "E", "B", "B", "A", "D", "7", "/", "w", "E", "A", "A",
        "A", "A", "A", "C", "A", "A", "C">>,
        <<>>),
     Data("base64", "gzip", <<"A", "Q", "A", "A", "A", "A", "=", "=">>, <<>>),
     Data("base64", "lz4", <<"A", "Q", "A", "A", "A", "A", "=", "=">>, <<>>),
     Data("json", "", <<"7">>, <<>>)}

\* declared layer sizes: absent (0, 0), or 1 x 1 (the size of one of the maps)
LayerSizes == {<<0, 0>>, <<1, 1>>}

MapSizes == {<<1, 1>>, <<2, 1>>}

LayerChoices ==
    {[Name |-> "ground", Width |-> s[1], Height |-> s[2], Data |-> d, Tiles |-> <<>>] :
        s \in LayerSizes, d \in DataChoices}

Doc(class, size, tilesets, layers) ==
    [kind |-> "doc",
     doc |-> <<[Class |-> class, Width |-> size[1], Height |-> size[2],
                Tilesets |-> tilesets, Layers |-> layers]>>]

GoodLayer ==
    [Name |-> "ground", Width |-> 1, Height |-> 1,
     Data |-> Data("", "", <<>>, <<ToGID(1)>>), Tiles |-> <<>>]

BadLayer ==
    [Name |-> "ground", Width |-> 1, Height |-> 1,
     Data |-> Data("json", "", <<>>, <<>>), Tiles |-> <<>>]

Unreadable == {[kind |-> "ioerr", doc |-> <<>>], [kind |-> "badxml", doc |-> <<>>]}

\* files that differ in their tilesets
TilesetFiles ==
    {Doc("town", <<1, 1>>, ts, <<GoodLayer>>) : ts \in SeqsUpTo(TilesetChoices, MaxTilesets)}

\* files that differ in their layers
LayerFiles ==
    {Doc("town", s, <<[FirstGID |-> ToGID(1), Source |-> <<"a.tsx">>]>>, ls) :
        s \in MapSizes, ls \in SeqsUpTo(LayerChoices, MaxLayers)}
    \cup Unreadable

NoResult == [kind |-> "none", err |-> Nil, m |-> NoMap]

NoGID == <<>>

(***************************************************************************)
(* Actions of the loader and of the resolver.                              *)
(***************************************************************************)
\* before LoadFile is called on one of files
LoaderInit(files) ==
    /\ source = MapFile
    /\ content \in files
    /\ out = NoResult
    /\ perm = <<>>
    /\ gidIn = NoGID
    /\ gidOut = NoGID

\* m, err := LoadFile(source)
DoLoadFile ==
    /\ out.kind = "none"
    /\ \E p \in SortOutcomes(content) :
          /\ out' = LoadFile(source, content, p)
          /\ perm' = p
    /\ UNCHANGED <<source, content, gidIn, gidOut, pointVars, registryVars>>

\* ts, id := m.DecodeTileGID(gid) on the loaded map
DoDecodeTileGID ==
    /\ out.kind = "map"
    /\ \E g \in QueryGIDs :
          /\ gidIn' = <<g>>
          /\ gidOut' = <<DecodeTileGID(out.m[1].Tilesets, g)>>
    /\ UNCHANGED <<source, content, out, perm, pointVars, registryVars>>

(***************************************************************************)
(* The geometry decoder: decodePoints, Polygon.Decode, PolyLine.Decode.    *)
(***************************************************************************)
\* strconv.Atoi(s), for tokens of at most MaxDigits digits
Atoi(s) ==
    LET signed == s # <<>> /\ Head(s) \in {"+", "-"}
        digits == IF signed THEN Tail(s) ELSE s
    IN IF digits = <<>> \/ \E i \in 1..Len(digits) : ~IsDigit(digits[i])
       THEN [err |-> ErrSyntax, val |-> 0]
       ELSE IF Len(digits) > MaxDigits THEN [err |-> ErrRange, val |-> 0]
       ELSE [err |-> Nil,
             val |-> IF signed /\ Head(s) = "-" THEN 0 - DigitsVal(digits)
                     ELSE DigitsVal(digits)]

\* the two calls of strconv.Atoi of one turn of the loop, having returned x, y
pointOf(x, y) ==
    IF x.err # Nil THEN [err |-> x.err, X |-> 0, Y |-> 0]
    ELSE IF y.err # Nil THEN [err |-> y.err, X |-> 0, Y |-> 0]
    ELSE [err |-> Nil, X |-> x.val, Y |-> y.val]

\* one turn of the loop of decodePoints, coordStrings being the split pair
coordsOf(coordStrings) ==
    IF Len(coordStrings) # 2 THEN [err |-> ErrInvalidPointsField, X |-> 0, Y |-> 0]
    ELSE pointOf(Atoi(coordStrings[1]), Atoi(coordStrings[2]))

decodePoint(pointString) == coordsOf(Split(pointString, ","))

\* the loop of decodePoints over the decoded pairs: the first pair that
\* fails ends it with its error and no points
pointsOf(decoded) ==
    IF \E i \in 1..Len(decoded) : decoded[i].err # Nil
    THEN [err |-> decoded[CHOOSE i \in 1..Len(decoded) :
                              decoded[i].err # Nil
                              /\ \A j \in 1..(i - 1) : decoded[j].err = Nil].err,
          points |-> <<>>]
    ELSE [err |-> Nil,
          points |-> [i \in 1..Len(decoded) |-> [X |-> decoded[i].X, Y |-> decoded[i].Y]]]

decodeAll(pointStrings) ==
    [i \in 1..Len(pointStrings) |-> decodePoint(pointStrings[i])]

\* decodePoints(s)
decodePoints(s) == pointsOf(decodeAll(Split(s, " ")))

\* the pairs the points strings are made of
PairChoices ==
    {<<"0", ",", "0">>, <<"1", "0", ",", "0">>,
     <<"1", "0", ",", "1", "0">>, <<"-", "5", ",", "+", "7">>,
     <<"1", "0">>, <<"1", ",", "2", ",", "3">>,
     <<"a", ",", "1">>, <<"1", ",", "b">>, <<>>}

RECURSIVE JoinPairs(_)
JoinPairs(ps) ==
    IF ps = <<>> THEN <<>>
    ELSE IF Len(ps) = 1 THEN ps[1]
    ELSE ps[1] \o <<" ">> \o JoinPairs(Tail(ps))

PointStrings == {JoinPairs(ps) : ps \in SeqsUpTo(PairChoices, MaxPairs)}

NoPoints == [err |-> "none", points |-> <<>>]

\* before Decode is called on a shape with one of strings
PointsInit(strings) ==
    /\ ptsIn \in strings
    /\ ptsOut = NoPoints

\* points, err := polygon.Decode()
PolygonDecode ==
    /\ ptsOut' = decodePoints(ptsIn)
    /\ UNCHANGED <<ptsIn, loaderVars, registryVars>>

\* points, err := polyline.Decode()
PolyLineDecode ==
    /\ ptsOut' = decodePoints(ptsIn)
    /\ UNCHANGED <<ptsIn, loaderVars, registryVars>>

(***************************************************************************)
(* The registry: MapManager, NewMapManager, LoadMaps, GetMapByName.        *)
(*                                                                         *)
(* mm.Maps is a function from class names to maps; a map is named by the   *)
(* position in hist at which LoadMaps stored it (each LoadFile returns a   *)
(* new *Map).  A directory listing is [err, entries]: err when             *)
(* filepath.Walk fails, else the entries in walk order, each               *)
(* [path, ext, isDir, file].                                               *)
(***************************************************************************)
ErrMapManagerNotLoaded == "tsx: map manager not loaded"
ErrMapNotFound == "tsx: map not found"

NilMap == 0

\* MapManager.GetMapByName
GetMapByName(m, name) ==
    IF ~m.IsLoaded THEN [m |-> NilMap, err |-> ErrMapManagerNotLoaded]
    ELSE IF name \in DOMAIN m.Maps THEN [m |-> m.Maps[name], err |-> Nil]
    ELSE [m |-> NilMap, err |-> ErrMapNotFound]

\* findTMXFiles: the entries that are no directory and end in .tmx
findTMXFiles(listing) ==
    IF listing.err THEN [err |-> TRUE, files |-> <<>>]
    ELSE [err |-> FALSE,
          files |-> SelectSeq(listing.entries, LAMBDA e : ~e.isDir /\ e.ext = ".tmx")]

\* the loop of LoadMaps from file i on; st is [Maps, hist, panicked]
RECURSIVE loadLoop(_, _, _)
\* the body of the loop for file i, LoadFile having returned t: an error
\* panics (as does a panic of LoadFile itself), a map is stored under its class
loadStep(st, files, i, t) ==
    IF t.kind # "map" THEN [st EXCEPT !.panicked = TRUE]
    ELSE loadLoop(
             [Maps |-> [c \in DOMAIN st.Maps \cup {t.m[1].Class} |->
                           IF c = t.m[1].Class THEN Len(st.hist) + 1 ELSE st.Maps[c]],
              hist |-> Append(st.hist, t.m[1].Class),
              panicked |-> FALSE],
             files, i + 1)

loadLoop(st, files, i) ==
    IF i > Len(files) THEN st
    ELSE loadStep(st, files, i,
                  LoadFile(files[i].path, files[i].file,
                           CHOOSE p \in SortOutcomes(files[i].file) : TRUE))

\* LoadMaps after its loop, which left st
loadEnd(m, st) ==
    IF st.panicked
    THEN [mm |-> [m EXCEPT !.Maps = st.Maps], hist |-> st.hist,
          end |-> "panic", completed |-> FALSE]
    ELSE [mm |-> [Maps |-> st.Maps, IsLoaded |-> TRUE], hist |-> st.hist,
          end |-> "returned", completed |-> TRUE]

\* IsLoaded set also when the directory scan fails
loadFoundAlwaysLoaded(m, h, found) ==
    IF found.err
    THEN [mm |-> [m EXCEPT !.IsLoaded = TRUE], hist |-> h, end |-> "returned",
          completed |-> FALSE]
    ELSE loadEnd(m, loadLoop([Maps |-> m.Maps, hist |-> h, panicked |-> FALSE],
                             found.files, 1))

\* LoadMaps after its call of findTMXFiles, which returned found
loadFound(m, h, found) ==
    IF found.err THEN [mm |-> m, hist |-> h, end |-> "returned", completed |-> FALSE]
    ELSE loadEnd(m, loadLoop([Maps |-> m.Maps, hist |-> h, panicked |-> FALSE],
                             found.files, 1))

\* LoadMaps(mm) with the directory as listed: the manager, the history and the
\* way the call ended ("returned", or "panic")
LoadMaps(m, h, listing) == loadFound(m, h, findTMXFiles(listing))

FileNames == <<"m1", "m2", "m3", "m4">>

Classes == {"town", "cave"}

QueryNames == Classes \cup {"x"}

\* what a directory entry may be: a good map of either class, a map with a
\* layer that does not decode, a file that is no map, a directory
EntryKinds ==
    {[ext |-> ".tmx", isDir |-> FALSE, file |-> Doc(c, <<1, 1>>, <<>>, <<GoodLayer>>)] :
        c \in Classes}
    \cup {[ext |-> ".tmx", isDir |-> FALSE, file |-> Doc("town", <<1, 1>>, <<>>, <<BadLayer>>)],
          [ext |-> ".txt", isDir |-> FALSE, file |-> [kind |-> "ioerr", doc |-> <<>>]],
          [ext |-> ".tmx", isDir |-> TRUE, file |-> [kind |-> "ioerr", doc |-> <<>>]]}

Listings ==
    {[err |-> TRUE, entries |-> <<>>]}
    \cup {[err |-> FALSE,
           entries |-> [i \in 1..Len(ks) |->
                           [path |-> <<"assets", "maps", FileNames[i]>>, ext |-> ks[i].ext,
                            isDir |-> ks[i].isDir, file |-> ks[i].file]]] :
             ks \in SeqsUpTo(EntryKinds, MaxFiles)}

NoListing == [err |-> FALSE, entries |-> <<>>]

NoQuery == [m |-> NilMap, err |-> "none"]

\* the struct NewMapManager builds, before its call of LoadMaps
RegistryInit ==
    /\ mm = [Maps |-> <<>>, IsLoaded |-> FALSE]
    /\ loads = 0
    /\ completed = 0
    /\ hist = <<>>
    /\ loadIn = NoListing
    /\ loadOut = "none"
    /\ qName = ""
    /\ qOut = NoQuery

\* the state after a call of LoadMaps that gave r
AfterLoad(listing, r) ==
    /\ mm' = r.mm
    /\ hist' = r.hist
    /\ loadOut' = r.end
    /\ completed' = IF r.completed THEN completed + 1 ELSE completed
    /\ loadIn' = listing
    /\ loads' = loads + 1
    /\ qName' = ""
    /\ qOut' = NoQuery

ApplyLoad(listing) == AfterLoad(listing, LoadMaps(mm, hist, listing))

\* mm := NewMapManager(baseDir): the first load.  When it panics the caller
\* never holds mm.
NewMapManager ==
    /\ loads = 0
    /\ \E listing \in Listings : ApplyLoad(listing)
    /\ UNCHANGED <<loaderVars, pointVars>>

\* LoadMaps(mm) called again on the manager NewMapManager returned (a caller
\* that recovers from its panic goes on with mm as the loop left it)
Reload ==
    /\ loads >= 1
    /\ loads < MaxLoads
    /\ ~(loads = 1 /\ loadOut = "panic")
    /\ \E listing \in Listings : ApplyLoad(listing)
    /\ UNCHANGED <<loaderVars, pointVars>>

\* m, err := mm.GetMapByName(name)
DoGetMapByName ==
    /\ loads >= 1
    /\ ~(loads = 1 /\ loadOut = "panic")
    /\ \E name \in QueryNames :
          /\ qName' = name
          /\ qOut' = GetMapByName(mm, name)
    /\ UNCHANGED <<mm, loads, completed, hist, loadIn, loadOut, loaderVars, pointVars>>

(***************************************************************************)
(* Specifications, one for each part of the package.  The parts share no   *)
(* state: each specification leaves the other parts as they start.         *)
(***************************************************************************)
LoaderIdle == LoaderInit({[kind |-> "ioerr", doc |-> <<>>]})

PointsIdle == PointsInit({<<>>})

\* loading one file, the files differing in their tilesets, and resolving
\* GIDs on the loaded map
InitTilesets == LoaderInit(TilesetFiles) /\ PointsIdle /\ RegistryInit

NextTilesets == DoLoadFile \/ DoDecodeTileGID

SpecTilesets == InitTilesets /\ [][NextTilesets]_vars

\* loading one file, the files differing in their layers
InitLayers == LoaderInit(LayerFiles) /\ PointsIdle /\ RegistryInit

NextLayers == DoLoadFile

SpecLayers == InitLayers /\ [][NextLayers]_vars

\* decoding the points of one shape
InitPoints == LoaderIdle /\ PointsInit(PointStrings) /\ RegistryInit

NextPoints == PolygonDecode \/ PolyLineDecode

SpecPoints == InitPoints /\ [][NextPoints]_vars

\* the registry: NewMapManager, then queries and further loads
InitRegistry == LoaderIdle /\ PointsIdle /\ RegistryInit

NextRegistry == NewMapManager \/ Reload \/ DoGetMapByName

SpecRegistry == InitRegistry /\ [][NextRegistry]_vars

Spec == SpecRegistry

(***************************************************************************)
(* The claims.                                                             *)
(***************************************************************************)
MapLoaded == out.kind = "map"

TheMap == out.m[1]

TheDoc == content.doc[1]

Resolved == MapLoaded /\ gidIn # NoGID

\* C1: GID resolution ignores the three flip bits: DecodeTileGID(g) returns
\* the tileset and the relative index that it returns for g masked with
\* GIDMask; 150 with the horizontal flip bit resolves to relative index 50.
C1_FlipBitsIgnored ==
    Resolved => gidOut[1] = DecodeTileGID(TheMap.Tilesets, GIDAndMask(gidIn[1]))

\* C2: DecodeTileGID(0) returns no tileset (nil) whatever the tilesets of the
\* loaded map are, a tileset with FirstGID 0 included.
C2_ZeroHasNoTileset ==
    (Resolved /\ gidIn[1] = ToGID(0)) => gidOut[1].ts = NilTileset

\* C3: after a successful load every tileset declared with a source has the
\* source join(base directory, declared source), and every tileset declared
\* without one keeps the empty source, wherever the latter stand in the list.
C3_SourcesRewritten ==
    MapLoaded =>
        \A i \in 1..Len(TheMap.Tilesets) :
            TheMap.Tilesets[i].Source =
                IF TheDoc.Tilesets[perm[i]].Source = <<>> THEN <<>>
                ELSE PathJoin(TheMap.baseDir, TheDoc.Tilesets[perm[i]].Source)

\* C4: in a map a load returned, every layer holds Width * Height tiles (the
\* layer's own declared width and height).
C4_TilesFillLayer ==
    MapLoaded =>
        \A i \in 1..Len(TheMap.Layers) :
            Len(TheMap.Layers[i].Tiles) = TheMap.Layers[i].Width * TheMap.Layers[i].Height

\* a tmx entry of the last listing whose load gives no map
FailingFile ==
    \E i \in 1..Len(loadIn.entries) :
        /\ ~loadIn.entries[i].isDir
        /\ loadIn.entries[i].ext = ".tmx"
        /\ \A p \in SortOutcomes(loadIn.entries[i].file) :
              LoadFile(loadIn.entries[i].path, loadIn.entries[i].file, p).kind # "map"

\* C5: when a map file of the directory fails to load, the load of the
\* registry fails by returning to its caller, not by a panic; the registry is
\* not loaded and GetMapByName fails with the not-loaded error for every name.
C5_LoadFailureReturned ==
    (loadOut # "none" /\ FailingFile) =>
        /\ loadOut = "returned"
        /\ ~mm.IsLoaded
        /\ \A name \in QueryNames : GetMapByName(mm, name).err = ErrMapManagerNotLoaded

\* the maps stored so far under the class name
StoredAs(name) == {i \in 1..Len(hist) : hist[i] = name}

\* C6: GetMapByName(name) fails with the not-loaded error exactly when no
\* call of LoadMaps has run to its end (a failed directory scan does not
\* count); after one has, it fails with the not-found error when no stored
\* map has the class name, and else returns the last map stored with it.
C6_GetMapByName ==
    qOut.err # "none" =>
        /\ (qOut.err = ErrMapManagerNotLoaded) <=> (completed = 0)
        /\ completed > 0 =>
              IF StoredAs(qName) = {}
              THEN qOut = [m |-> NilMap, err |-> ErrMapNotFound]
              ELSE /\ qOut.err = Nil
                   /\ qOut.m \in StoredAs(qName)
                   /\ \A i \in StoredAs(qName) : i <= qOut.m

C6_Witness ==
    /\ qOut.err = Nil
    /\ Cardinality(StoredAs(qName)) >= 2
    /\ qOut.m = Len(hist)
    /\ loadOut = "returned"

\* what decoding the layers of the document gives, layer by layer
LayerErr(i) ==
    decodeLayer([Width |-> TheDoc.Width, Height |-> TheDoc.Height], TheDoc.Layers[i]).err

LayerGids(i) ==
    decodeLayer([Width |-> TheDoc.Width, Height |-> TheDoc.Height], TheDoc.Layers[i]).gids

FailedLayers == {i \in 1..Len(TheDoc.Layers) : LayerErr(i) # Nil}

FirstFailed == CHOOSE i \in FailedLayers : \A j \in FailedLayers : i <= j

KnownEncodings == {"", "csv", "base64"}

KnownCompressions == {"", "gzip", "zlib"}

\* C8: a layer whose compression tag is none of "", "gzip", "zlib" fails to
\* decode with the unknown-compression error, whichever of the encodings "",
\* "csv", "base64" it has (here: the first layer of the document, so the
\* load returns that error).
C8_UnknownCompression ==
    (/\ out.kind # "none"
     /\ content.kind = "doc"
     /\ TheDoc.Layers # <<>>
     /\ TheDoc.Layers[1].Data # <<>>
     /\ TheDoc.Layers[1].Data[1].Encoding \in KnownEncodings
     /\ TheDoc.Layers[1].Data[1].Compression \notin KnownCompressions)
    => (out.kind = "err" /\ out.err = ErrUnknownCompression)

\* an integer token: an optional sign, then one digit or more
IsIntegerToken(t) ==
    /\ t # <<>>
    /\ LET d == IF Head(t) \in {"+", "-"} THEN Tail(t) ELSE t
       IN d # <<>> /\ \A i \in 1..Len(d) : IsDigit(d[i])

IntegerOf(t) ==
    IF Head(t) = "-" THEN 0 - DigitsVal(Tail(t))
    ELSE IF Head(t) = "+" THEN DigitsVal(Tail(t))
    ELSE DigitsVal(t)

PairsOf(s) == Split(s, " ")

WellFormedPoints(s) ==
    \A i \in 1..Len(PairsOf(s)) :
        /\ Len(Split(PairsOf(s)[i], ",")) = 2
        /\ IsIntegerToken(Split(PairsOf(s)[i], ",")[1])
        /\ IsIntegerToken(Split(PairsOf(s)[i], ",")[2])

\* C9: decodePoints(s) returns the points in input order when every pair of s
\* is two comma-separated integer tokens, and else fails with
\* ErrInvalidPointsField and no points, be it that a pair does not split in
\* two or that a token is no integer.
C9_MalformedPoints ==
    ptsOut.err # "none" =>
        IF WellFormedPoints(ptsIn)
        THEN /\ ptsOut.err = Nil
             /\ ptsOut.points =
                    [i \in 1..Len(PairsOf(ptsIn)) |->
                        [X |-> IntegerOf(Split(PairsOf(ptsIn)[i], ",")[1]),
                         Y |-> IntegerOf(Split(PairsOf(ptsIn)[i], ",")[2])]]
        ELSE ptsOut = [err |-> ErrInvalidPointsField, points |-> <<>>]

\* the tilesets of the loaded map that may own g: FirstGID <= g
Owners(g) ==
    {i \in 1..Len(TheMap.Tilesets) : GIDGeq(g, TheMap.Tilesets[i].FirstGID)}

\* C10: after a load the tilesets are in descending order of FirstGID, and
\* for a GID g without flip bits DecodeTileGID(g) returns a tileset with the
\* largest FirstGID <= g and g - FirstGID, and nil exactly when g is smaller
\* than every FirstGID.
C10_TightestFit ==
    MapLoaded =>
        /\ \A i, j \in 1..Len(TheMap.Tilesets) :
              i < j => GIDGeq(TheMap.Tilesets[i].FirstGID, TheMap.Tilesets[j].FirstGID)
        /\ (gidIn # NoGID /\ gidIn[1].flip = 0) =>
              IF Owners(gidIn[1]) = {}
              THEN gidOut[1].ts = NilTileset
              ELSE /\ gidOut[1].ts \in Owners(gidIn[1])
                   /\ \A j \in Owners(gidIn[1]) :
                         GIDGeq(TheMap.Tilesets[gidOut[1].ts].FirstGID,
                                TheMap.Tilesets[j].FirstGID)
                   /\ gidOut[1].id =
                         GIDSub(gidIn[1], TheMap.Tilesets[gidOut[1].ts].FirstGID)

C10_Witness ==
    /\ Resolved
    /\ Len(TheDoc.Tilesets) = 3
    /\ TheDoc.Tilesets[1].FirstGID = ToGID(1)
    /\ TheDoc.Tilesets[2].FirstGID = ToGID(50)
    /\ TheDoc.Tilesets[3].FirstGID = ToGID(100)
    /\ gidIn[1] = ToGID(75)
    /\ TheMap.Tilesets[gidOut[1].ts].FirstGID = ToGID(50)
    /\ gidOut[1].id = ToGID(25)

====
